---- MODULE Spec2Model ----
(***************************************************************************)
(* Model of scirpy.ir_dist._clonotype_neighbors.ClonotypeNeighbors:        *)
(* building the clonotype table and the lookup structure (_prepare), and   *)
(* computing the clonotype x clonotype distance matrix                     *)
(* (compute_distances / _dist_for_clonotype).                              *)
(*                                                                         *)
(* Encoding of numpy floats: distances are naturals, np.nan is NaN and     *)
(* np.inf is Inf (larger than every distance).                             *)
(* Column and table names are tuples of strings: the column                *)
(* f"IR_{arm}_{i}_{sequence_key}" is <<arm, i, "seq">>, the column         *)
(* f"IR_{arm}_{i}_v_gene" is <<arm, i, "v_gene">>.                         *)
(***************************************************************************)
EXTENDS Integers, Sequences, FiniteSets, TLC

\* ---- bounds of the model ----
NumCells == 2
MaxDist == 2
MaxOperands == 3

\* ---- numpy sentinels ----
NaN == -1
Inf == 1000

VARIABLES
    cfg,                \* receptor_arms, dual_ir, same_v_gene, within_group
    obs,                \* adata.obs: one record per cell, in obs order
    distance_dict,      \* adata.uns[distance_key]: arm -> [seqs, distances]
    pc,                 \* position inside __init__/_prepare/compute_distances
    err,                \* the exception raised, "" if none
    clonotypes,         \* self.clonotypes: rows of the clonotype table
    cell_indices,       \* self.cell_indices: one set of obs names per row
    nf_created,         \* self.neighbor_finder is not None
    distance_matrices,  \* neighbor_finder: name -> [labels, mat]
    lookup_tables,      \* neighbor_finder: name -> [dist, idx]
    path,               \* execution path of compute_distances
    dist_rows,          \* rows produced so far: ct_id -> sparse row
    dist,               \* the matrix returned by compute_distances
    h_args,             \* operands of one column handed to reduce_and/_or
    h_count,            \* chain_count of the clonotype for reduce_and
    h_out               \* result of the reduction applied to h_args

vars == <<cfg, obs, distance_dict, pc, err, clonotypes, cell_indices,
          nf_created, distance_matrices, lookup_tables, path, dist_rows,
          dist, h_args, h_count, h_out>>

pipelineVars == <<cfg, obs, distance_dict, pc, err, clonotypes, cell_indices,
                  nf_created, distance_matrices, lookup_tables, path,
                  dist_rows, dist>>

harnessVars == <<h_args, h_count, h_out>>

\* ---- small helpers ----
Range(s) == {s[i] : i \in 1..Len(s)}

RECURSIVE SetToSeq(_)
SetToSeq(S) ==
    IF S = {} THEN <<>>
    ELSE LET x == CHOOSE y \in S : TRUE IN <<x>> \o SetToSeq(S \ {x})

IndexOf(s, x) ==
    IF \E i \in 1..Len(s) : s[i] = x
    THEN CHOOSE i \in 1..Len(s) : s[i] = x
    ELSE 0

RECURSIVE Uniq(_)
\* unique elements of a sequence, in order of first appearance
Uniq(s) ==
    IF s = <<>> THEN <<>>
    ELSE LET front == Uniq(SubSeq(s, 1, Len(s) - 1))
             last  == s[Len(s)]
         IN  IF last \in Range(front) THEN front ELSE Append(front, last)

MaxOf(S) == CHOOSE x \in S : \A y \in S : y <= x
MinOf(S) == CHOOSE x \in S : \A y \in S : x <= y

\* ---- configuration (__init__) ----
receptor_arm_cols(c) ==
    IF c.receptor_arms \in {"all", "any"} THEN <<"VJ", "VDJ">>
    ELSE <<c.receptor_arms>>

dual_ir_cols(c) ==
    IF c.dual_ir = "primary_only" THEN <<"1">> ELSE <<"1", "2">>

\* itertools.product(arms, chains), in order
Product(arms, chains) ==
    [k \in 1..(Len(arms) * Len(chains)) |->
        <<arms[((k - 1) \div Len(chains)) + 1],
          chains[((k - 1) % Len(chains)) + 1]>>]

cdr3_cols(c) ==
    LET p == Product(receptor_arm_cols(c), dual_ir_cols(c))
    IN  [k \in 1..Len(p) |-> <<p[k][1], p[k][2], "seq">>]

v_gene_cols(c) ==
    IF c.same_v_gene
    THEN LET p == Product(receptor_arm_cols(c), dual_ir_cols(c))
         IN  [k \in 1..Len(p) |-> <<p[k][1], p[k][2], "v_gene">>]
    ELSE <<>>

\* the column of adata.obs named by within_group
PatientCol == <<"obs", "0", "patient">>

\* within_group=None (no grouping column)
WithinGroupNone == <<>>

\* ---- adata.obs ----
\* A cell is [name, has_ir, VJ, VDJ, v_gene, patient]: VJ and VDJ are the
\* pairs <<primary, secondary>> of sequence strings, a missing one being the
\* string "nan" or "None"; every present chain of the cell carries v_gene.
IsMissingRaw(x) == x \in {"nan", "None"}

ChainSlot(i) == IF i = "1" THEN 1 ELSE 2

ObsValue(cell, col) ==
    IF col = PatientCol THEN cell.patient
    ELSE LET seq == cell[col[1]][ChainSlot(col[2])]
         IN  IF col[3] = "seq" THEN seq
             ELSE IF IsMissingRaw(seq) THEN "nan" ELSE cell.v_gene

\* ..util._is_na on a string column
IsNa(x) == x \in {"nan", "None", "NaN", "NA", "na"}

\* astype(str) followed by setting every _is_na entry to "nan"
NormalizedValue(cell, col) ==
    LET x == ObsValue(cell, col) IN IF IsNa(x) THEN "nan" ELSE x

\* ---- _make_clonotype_table ----
clonotype_cols(c) == cdr3_cols(c) \o v_gene_cols(c) \o c.within_group

\* positions in obs of the cells with has_ir, in obs order
ObsFiltered(o) == SelectSeq([k \in 1..Len(o) |-> k], LAMBDA k : o[k].has_ir)

\* one row of obs_filtered as a tuple over clonotype_cols
CtTuple(c, cell) ==
    [j \in 1..Len(clonotype_cols(c)) |-> NormalizedValue(cell, clonotype_cols(c)[j])]

\* groupby(clonotype_cols, sort=False).size().index.to_frame(): the unique
\* tuples in order of first appearance
GroupbyFrame(c, o) ==
    Uniq([k \in 1..Len(ObsFiltered(o)) |-> CtTuple(c, o[ObsFiltered(o)[k]])])

\* The key of a group in groupby.indices: pandas keys the groups of a
\* groupby over a list of ONE column by the scalar value, and the groups of
\* a groupby over several columns by the tuple of values.
IndicesKey(c, t) ==
    IF Len(clonotype_cols(c)) = 1 THEN <<"scalar", t[1]>> ELSE <<"tuple">> \o t

\* what clonotypes.itertuples(index=False, name=None) hands to .get(): a tuple
ItertuplesKey(t) == <<"tuple">> \o t

\* clonotype_groupby.indices.get(ct_tuple, []) mapped through
\* obs_filtered.index: the obs names of the group, [] when the key is absent
CellIndicesOf(c, o, t) ==
    {o[k].name : k \in {k \in Range(ObsFiltered(o)) :
                           IndicesKey(c, CtTuple(c, o[k])) = ItertuplesKey(t)}}

\* the frame after folding the within_group columns into one tuple column:
\* a row is [vals: column -> string, within_group: tuple]
FoldWithinGroup(c, t) ==
    LET seqcols == cdr3_cols(c) \o v_gene_cols(c)
    IN  [vals |-> [col \in Range(seqcols) |-> t[IndexOf(clonotype_cols(c), col)]],
         within_group |->
            IF c.within_group # WithinGroupNone
            THEN [j \in 1..Len(c.within_group) |->
                     t[IndexOf(clonotype_cols(c), c.within_group[j])]]
            ELSE <<>>]

ClonotypeRows(c, o) ==
    [r \in 1..Len(GroupbyFrame(c, o)) |-> FoldWithinGroup(c, GroupbyFrame(c, o)[r])]

\* the consistency check with the two masks exchanged:
\* ~primary_is_nan[secondary_is_nan]
OrphanSecondarySwapped(c, rows) ==
    /\ "2" \in Range(dual_ir_cols(c))
    /\ \E arm \in Range(receptor_arm_cols(c)) : \E r \in 1..Len(rows) :
          /\ rows[r].vals[<<arm, "2", "seq">>] = "nan"
          /\ rows[r].vals[<<arm, "1", "seq">>] # "nan"

\* consistency check: np.sum(~secondary_is_nan[primary_is_nan]) is nonzero
OrphanSecondary(c, rows) ==
    /\ "2" \in Range(dual_ir_cols(c))
    /\ \E arm \in Range(receptor_arm_cols(c)) : \E r \in 1..Len(rows) :
          /\ rows[r].vals[<<arm, "1", "seq">>] = "nan"
          /\ rows[r].vals[<<arm, "2", "seq">>] # "nan"

ObsNamesUnique(o) == \A i, j \in 1..Len(o) : o[i].name = o[j].name => i = j

MakeClonotypeTable ==
    /\ pc = "init"
    /\ IF ~ObsNamesUnique(obs)
       THEN /\ pc' = "error"
            /\ err' = "ValueError"
            /\ UNCHANGED <<clonotypes, cell_indices>>
       ELSE IF Len(GroupbyFrame(cfg, obs)) = 0
       THEN /\ pc' = "error"
            /\ err' = "ValueError"
            /\ UNCHANGED <<clonotypes, cell_indices>>
       ELSE /\ cell_indices' =
                  [r \in 1..Len(GroupbyFrame(cfg, obs)) |->
                      CellIndicesOf(cfg, obs, GroupbyFrame(cfg, obs)[r])]
            /\ IF OrphanSecondary(cfg, ClonotypeRows(cfg, obs))
               THEN /\ pc' = "error"
                    /\ err' = "AssertionError"
                    /\ UNCHANGED clonotypes
               ELSE /\ pc' = "table"
                    /\ err' = err
                    /\ clonotypes' = ClonotypeRows(cfg, obs)
    /\ UNCHANGED <<cfg, obs, distance_dict, nf_created, distance_matrices,
                   lookup_tables, path, dist_rows, dist>>
    /\ UNCHANGED harnessVars

\* ---- DoubleLookupNeighborFinder (scirpy.ir_dist._util) ----
WithinGroupTable == <<"within_group", "", "">>

Identity(n) == [i \in 1..n |-> [j \in 1..n |-> IF i = j THEN 1 ELSE 0]]

\* the value of a clonotype row in a column of the clonotype table
RowValue(row, col) ==
    IF col = WithinGroupTable THEN row.within_group ELSE row.vals[col]

\* add_lookup_table: per row, the index of the row's value in the label
\* array of the distance matrix, 0 when the value has no label
MakeLookupTable(rows, col, dm) ==
    [r \in 1..Len(rows) |-> IndexOf(dm.labels, RowValue(rows[r], col))]

\* lookup(ct_id, table_a, table_b): the row of the distance matrix of the
\* label of ct_id in table_a, re-indexed by clonotype through table_b
Lookup(ct_id, ta, tb) ==
    LET la  == lookup_tables[ta].idx[ct_id]
        mat == distance_matrices[lookup_tables[ta].dist].mat
    IN  [j \in 1..Len(clonotypes) |->
            IF la = 0 \/ lookup_tables[tb].idx[j] = 0 THEN 0
            ELSE mat[la][lookup_tables[tb].idx[j]]]

\* ---- _prepare ----
CreateNeighborFinder ==
    /\ pc = "table"
    /\ nf_created' = TRUE
    /\ pc' = "finder"
    /\ UNCHANGED <<cfg, obs, distance_dict, err, clonotypes, cell_indices,
                   distance_matrices, lookup_tables, path, dist_rows, dist>>
    /\ UNCHANGED harnessVars

\* _unique_values_in_multiple_columns(adata.obs, cols)
UniqueValuesInMultipleColumns(o, cols) ==
    {ObsValue(o[k], cols[j]) : k \in 1..Len(o), j \in 1..Len(cols)}

DistanceMatrixNames(c) ==
    Range(receptor_arm_cols(c))
      \cup (IF c.same_v_gene THEN {"v_gene"} ELSE {})
      \cup (IF c.within_group # WithinGroupNone THEN {"within_group"} ELSE {})

DistanceMatrixFor(c, name) ==
    IF name = "v_gene"
    THEN LET v_genes == SetToSeq(UniqueValuesInMultipleColumns(obs, v_gene_cols(c)))
         IN  [labels |-> v_genes, mat |-> Identity(Len(v_genes))]
    ELSE IF name = "within_group"
    THEN LET within_group_values ==
                 SetToSeq({clonotypes[r].within_group : r \in 1..Len(clonotypes)})
         IN  [labels |-> within_group_values,
              mat |-> Identity(Len(within_group_values))]
    ELSE [labels |-> distance_dict[name].seqs, mat |-> distance_dict[name].distances]

AddDistanceMatrices ==
    /\ pc = "finder"
    /\ distance_matrices' =
          [name \in DistanceMatrixNames(cfg) |-> DistanceMatrixFor(cfg, name)]
    /\ pc' = "matrices"
    /\ UNCHANGED <<cfg, obs, distance_dict, err, clonotypes, cell_indices,
                   nf_created, lookup_tables, path, dist_rows, dist>>
    /\ UNCHANGED harnessVars

LookupTableNames(c) ==
    Range(cdr3_cols(c)) \cup Range(v_gene_cols(c))
      \cup (IF c.within_group # WithinGroupNone THEN {WithinGroupTable} ELSE {})

LookupTableDist(t) ==
    IF t = WithinGroupTable THEN "within_group"
    ELSE IF t[3] = "v_gene" THEN "v_gene"
    ELSE t[1]

AddLookupTables ==
    /\ pc = "matrices"
    /\ lookup_tables' =
          [t \in LookupTableNames(cfg) |->
              [dist |-> LookupTableDist(t),
               idx  |-> MakeLookupTable(clonotypes, t,
                                        distance_matrices[LookupTableDist(t)])]]
    /\ pc' = "prepared"
    /\ UNCHANGED <<cfg, obs, distance_dict, err, clonotypes, cell_indices,
                   nf_created, distance_matrices, path, dist_rows, dist>>
    /\ UNCHANGED harnessVars

\* ---- numpy on one column of the stacked operands ----
\* tmp_array[tmp_array == 0] = np.inf
ZeroToInf(x) == IF x = 0 THEN Inf ELSE x

\* tmp_array[np.isinf(tmp_array)] = 0
InfToZero(x) == IF x = Inf THEN 0 ELSE x

\* np.nanmax / np.nanmin over axis 0: nan when every operand is nan
NanMax(t) ==
    LET S == {t[k] : k \in 1..Len(t)} \ {NaN}
    IN  IF S = {} THEN NaN ELSE MaxOf(S)

NanMin(t) ==
    LET S == {t[k] : k \in 1..Len(t)} \ {NaN}
    IN  IF S = {} THEN NaN ELSE MinOf(S)

\* np.multiply(float, bool): nan * x = nan, inf * 0 = nan
Multiply(x, mask) ==
    IF x = NaN THEN NaN
    ELSE IF x = Inf THEN (IF mask THEN Inf ELSE NaN)
    ELSE IF mask THEN x ELSE 0

\* reduce_and without the zero -> inf step: a plain nanmax under the mask
reduce_and_plain_max(args, chain_count) ==
    LET same_count_mask ==
            Cardinality({k \in 1..Len(args) : args[k] = NaN}) = chain_count
    IN  Multiply(NanMax(args), same_count_mask)

\* reduce_and without the inf -> 0 step after the nanmax
reduce_and_keep_inf(args, chain_count) ==
    LET tmp_array == [k \in 1..Len(args) |-> ZeroToInf(args[k])]
        same_count_mask ==
            Cardinality({k \in 1..Len(args) : tmp_array[k] = NaN}) = chain_count
    IN  Multiply(NanMax(tmp_array), same_count_mask)

\* reduce_and(*args, cols) on one column; chain_count is the number of "nan"
\* among the clonotype's own values in cols
reduce_and(args, chain_count) ==
    LET tmp_array == [k \in 1..Len(args) |-> ZeroToInf(args[k])]
        same_count_mask ==
            Cardinality({k \in 1..Len(args) : tmp_array[k] = NaN}) = chain_count
    IN  Multiply(InfToZero(NanMax(tmp_array)), same_count_mask)

\* reduce_or(*args) on one column
reduce_or(args) ==
    LET tmp_array == [k \in 1..Len(args) |-> ZeroToInf(args[k])]
    IN  InfToZero(NanMin(tmp_array))

\* ---- _dist_for_clonotype ----
chain_ids(c) ==
    IF c.dual_ir = "primary_only" THEN {<<"1", "1">>}
    ELSE {<<"1", "1">>, <<"2", "2">>, <<"1", "2">>, <<"2", "1">>}

\* lookup[(tmp_arm, c1, c2)]
LookupOf(ct_id, arm, c1, c2) ==
    Lookup(ct_id, <<arm, c1, "seq">>, <<arm, c2, "seq">>)

\* has_distance.indices: the columns with a nonzero entry in some lookup
HasDistance(ct_id) ==
    {i \in 1..Len(clonotypes) :
        \E arm \in Range(receptor_arm_cols(cfg)) : \E p \in chain_ids(cfg) :
            LookupOf(ct_id, arm, p[1], p[2])[i] # 0}

\* make_tmp_res reading the chain of the clonotype ct_id (ct_col1) instead
\* of the chain of the column (ct_col2)
make_tmp_res_ct_col1(ct_id, arm, c1, c2, i) ==
    IF clonotypes[ct_id].vals[<<arm, c1, "seq">>] # "nan"
    THEN LookupOf(ct_id, arm, c1, c2)[i]
    ELSE NaN

\* make_tmp_res(tmp_arm, c1, c2) at column i
make_tmp_res(ct_id, arm, c1, c2, i) ==
    IF clonotypes[i].vals[<<arm, c2, "seq">>] # "nan"
    THEN LookupOf(ct_id, arm, c1, c2)[i]
    ELSE NaN

\* np.sum(self.clonotypes.loc[:, cols].iloc[ct_id, :].values == "nan")
ChainCount(ct_id, cols) ==
    Cardinality({k \in 1..Len(cols) : clonotypes[ct_id].vals[cols[k]] = "nan"})

\* tmp_res of one arm at column i
ArmRes(ct_id, arm, i) ==
    IF cfg.dual_ir = "primary_only"
    THEN make_tmp_res(ct_id, arm, "1", "1", i)
    ELSE IF cfg.dual_ir = "all"
    THEN reduce_or(<<
            reduce_and(<<make_tmp_res(ct_id, arm, "1", "1", i),
                         make_tmp_res(ct_id, arm, "2", "2", i)>>,
                       ChainCount(ct_id, <<<<arm, "1", "seq">>, <<arm, "2", "seq">>>>)),
            reduce_and(<<make_tmp_res(ct_id, arm, "1", "2", i),
                         make_tmp_res(ct_id, arm, "2", "1", i)>>,
                       ChainCount(ct_id, <<<<arm, "1", "seq">>, <<arm, "2", "seq">>>>))
         >>)
    ELSE reduce_or(<<make_tmp_res(ct_id, arm, "1", "1", i),
                     make_tmp_res(ct_id, arm, "1", "2", i),
                     make_tmp_res(ct_id, arm, "2", "2", i),
                     make_tmp_res(ct_id, arm, "2", "1", i)>>)

\* res after the reduction across the arms, at column i
ResAt(ct_id, i) ==
    LET arms == receptor_arm_cols(cfg)
        res  == [a \in 1..Len(arms) |-> ArmRes(ct_id, arms[a], i)]
    IN  IF cfg.receptor_arms = "all"
        THEN reduce_and(res, ChainCount(ct_id,
                 [a \in 1..Len(arms) |-> <<arms[a], "1", "seq">>]))
        ELSE reduce_or(res)

\* final_res: the sparse row of clonotype ct_id over has_distance.indices
dist_for_clonotype(ct_id) == [i \in HasDistance(ct_id) |-> ResAt(ct_id, i)]

\* ---- compute_distances ----
\* csr_matrix.eliminate_zeros on one row
EliminateZeros(row) == [i \in {j \in DOMAIN row : row[j] # 0} |-> row[i]]

\* the row index taken in reverse table order
NextCtIdReversed(rows) == Len(clonotypes) - Len(rows)

\* tmap(self._dist_for_clonotype, range(n_clonotypes)): the next index
NextCtId(rows) == Len(rows) + 1

\* one step of the sequential path: the next row of the map
DistRowSequential ==
    /\ pc = "prepared"
    /\ path \in {"none", "tmap"}
    /\ Len(dist_rows) < Len(clonotypes)
    /\ dist_rows' = Append(dist_rows, dist_for_clonotype(NextCtId(dist_rows)))
    /\ path' = "tmap"
    /\ UNCHANGED <<cfg, obs, distance_dict, pc, err, clonotypes, cell_indices,
                   nf_created, distance_matrices, lookup_tables, dist>>
    /\ UNCHANGED harnessVars

\* one step of the parallel path (the process_map call, which the source
\* keeps commented out): a worker finishes some row, in any order; the
\* result list is indexed by the position in the input
DistRowParallel ==
    /\ pc = "prepared"
    /\ path \in {"none", "process_map"}
    /\ \E ct_id \in (1..Len(clonotypes)) \ DOMAIN dist_rows :
          dist_rows' = (ct_id :> dist_for_clonotype(ct_id)) @@ dist_rows
    /\ path' = "process_map"
    /\ UNCHANGED <<cfg, obs, distance_dict, pc, err, clonotypes, cell_indices,
                   nf_created, distance_matrices, lookup_tables, dist>>
    /\ UNCHANGED harnessVars

\* sp.vstack(dist_rows); dist.eliminate_zeros(); return dist
VStack ==
    /\ pc = "prepared"
    /\ DOMAIN dist_rows = 1..Len(clonotypes)
    /\ dist' = [k \in 1..Len(clonotypes) |-> EliminateZeros(dist_rows[k])]
    /\ pc' = "done"
    /\ UNCHANGED <<cfg, obs, distance_dict, err, clonotypes, cell_indices,
                   nf_created, distance_matrices, lookup_tables, path, dist_rows>>
    /\ UNCHANGED harnessVars

\* entry (k, i) of the returned sparse matrix
Entry(k, i) == IF i \in DOMAIN dist[k] THEN dist[k][i] ELSE 0

\* ---- the reductions applied to one column of operands ----
ApplyReduceAnd ==
    /\ pc = "reduce"
    /\ h_out = <<>>
    /\ h_out' = <<"and", reduce_and(h_args, h_count)>>
    /\ UNCHANGED <<h_args, h_count>>
    /\ UNCHANGED pipelineVars

ApplyReduceOr ==
    /\ pc = "reduce"
    /\ h_out = <<>>
    /\ h_out' = <<"or", reduce_or(h_args)>>
    /\ UNCHANGED <<h_args, h_count>>
    /\ UNCHANGED pipelineVars

\* ---- inputs ----
ReceptorArms == {"VJ", "VDJ", "all", "any"}
DualIr == {"primary_only", "all", "any"}

Configs ==
    [receptor_arms : ReceptorArms, dual_ir : DualIr, same_v_gene : BOOLEAN,
     within_group : {WithinGroupNone, <<PatientCol>>}]

ObsNames == <<"c1", "c2", "c3", "c4">>

\* the receptors of a cell, <<VJ pair, VDJ pair>>: one or two chains per
\* arm, an arm without chains, a missing chain spelled "None", and a
\* secondary VJ chain without a primary one
Receptors ==
    {<<<<"a", "nan">>,   <<"d", "nan">>>>,
     <<<<"a", "b">>,     <<"c", "nan">>>>,
     <<<<"b", "a">>,     <<"c", "nan">>>>,
     <<<<"nan", "nan">>, <<"c", "None">>>>,
     <<<<"a", "None">>,  <<"None", "None">>>>,
     <<<<"nan", "b">>,   <<"c", "nan">>>>}

\* the cells a configuration can tell apart: the v-gene and the patient vary
\* only when the configuration reads them; the first cell names the first
\* v-gene and the first patient and the second cell may name another; the
\* second cell may also repeat the obs name of the first
CellsFor(c, k) ==
    {[name |-> ObsNames[k], has_ir |-> TRUE, VJ |-> r[1], VDJ |-> r[2],
      v_gene |-> v, patient |-> p] :
        r \in Receptors,
        v \in IF c.same_v_gene /\ k = 2 THEN {"TRV1", "TRV2"} ELSE {"TRV1"},
        p \in IF c.within_group # WithinGroupNone /\ k = 2
              THEN {"P1", "P2"} ELSE {"P1"}}
    \cup
    {[name |-> n, has_ir |-> FALSE, VJ |-> <<"nan", "nan">>,
      VDJ |-> <<"None", "None">>, v_gene |-> "TRV1", patient |-> "P1"] :
        n \in IF k = 2 THEN {ObsNames[k], ObsNames[1]} ELSE {ObsNames[k]}}

\* sequence distance matrices of the upstream ir_dist step: symmetric, 1 on
\* the diagonal (identical sequences), 0 for "not a neighbor"
DistanceDict ==
    [arm \in {"VJ", "VDJ"} |->
        IF arm = "VJ"
        THEN [seqs |-> <<"a", "b">>,
              distances |-> <<<<1, MaxDist>>, <<MaxDist, 1>>>>]
        ELSE [seqs |-> <<"c", "d">>,
              distances |-> <<<<1, 0>>, <<0, 1>>>>]]

Init ==
    /\ cfg \in Configs
    /\ obs \in {o \in [1..NumCells -> UNION {CellsFor(cfg, k) : k \in 1..NumCells}] :
                   \A k \in 1..NumCells : o[k] \in CellsFor(cfg, k)}
    /\ distance_dict = DistanceDict
    /\ pc = "init"
    /\ err = ""
    /\ clonotypes = <<>>
    /\ cell_indices = <<>>
    /\ nf_created = FALSE
    /\ distance_matrices = <<>>
    /\ lookup_tables = <<>>
    /\ path = "none"
    /\ dist_rows = <<>>
    /\ dist = <<>>
    /\ h_args = <<>>
    /\ h_count = 0
    /\ h_out = <<>>

Next ==
    \/ MakeClonotypeTable
    \/ CreateNeighborFinder
    \/ AddDistanceMatrices
    \/ AddLookupTables
    \/ DistRowSequential
    \/ DistRowParallel
    \/ VStack

Spec == Init /\ [][Next]_vars

\* operands of one column: a distance, zero, or missing
Operands == (0..MaxDist) \cup {NaN}

InitReduce ==
    /\ cfg = [receptor_arms |-> "any", dual_ir |-> "any", same_v_gene |-> FALSE,
              within_group |-> WithinGroupNone]
    /\ obs = <<>>
    /\ distance_dict = DistanceDict
    /\ pc = "reduce"
    /\ err = ""
    /\ clonotypes = <<>>
    /\ cell_indices = <<>>
    /\ nf_created = FALSE
    /\ distance_matrices = <<>>
    /\ lookup_tables = <<>>
    /\ path = "none"
    /\ dist_rows = <<>>
    /\ dist = <<>>
    /\ h_args \in UNION {[1..n -> Operands] : n \in 1..MaxOperands}
    /\ h_count \in 0..MaxOperands
    /\ h_out = <<>>

NextReduce == ApplyReduceAnd \/ ApplyReduceOr

SpecReduce == InitReduce /\ [][NextReduce]_vars

\* ======================= properties =======================
Rows == 1..Len(clonotypes)

Built == pc \in {"table", "finder", "matrices", "prepared", "done"}

\* the two clonotypes have the same receptor sequences in every compared chain
SameSequences(k, i) ==
    \A col \in Range(cdr3_cols(cfg)) : clonotypes[k].vals[col] = clonotypes[i].vals[col]

\* C1: with a within_group column, two clonotypes with identical receptor
\* sequences but different group values have entry 0 in the returned matrix.
C1_NoNeighborsAcrossGroups ==
    (pc = "done" /\ cfg.within_group # WithinGroupNone) =>
        \A k \in Rows : \A i \in Rows :
            (SameSequences(k, i)
               /\ clonotypes[k].within_group # clonotypes[i].within_group)
            => Entry(k, i) = 0

\* C2: with same_v_gene, two clonotypes with identical CDR3 sequences but a
\* different v-gene on a compared chain have entry 0 in the returned matrix.
C2_NoNeighborsAcrossVGenes ==
    (pc = "done" /\ cfg.same_v_gene) =>
        \A k \in Rows : \A i \in Rows :
            (SameSequences(k, i)
               /\ \E col \in Range(v_gene_cols(cfg)) :
                     clonotypes[k].vals[col] # clonotypes[i].vals[col])
            => Entry(k, i) = 0

MissingOperands(args) == Cardinality({k \in 1..Len(args) : args[k] = NaN})

\* C3: reduce_and returns exactly 0 for a column whenever the number of
\* missing operands differs from the clonotype's own missing-chain count,
\* whatever the operands are (also when all of them are missing).
C3_AndZeroOnCountMismatch ==
    (h_out # <<>> /\ h_out[1] = "and" /\ MissingOperands(h_args) # h_count)
        => h_out[2] = 0

Reversed(args) == [k \in 1..Len(args) |-> args[Len(args) + 1 - k]]

\* C4: reduce_or returns the minimum of the operands that are nonzero and not
\* missing, 0 when every operand is zero or missing (also when all are
\* missing), whatever the order of the operands and with an operand repeated.
C4_OrIsMinOfPresent ==
    (h_out # <<>> /\ h_out[1] = "or") =>
        LET present == {h_args[k] : k \in 1..Len(h_args)} \ {0, NaN}
            expected == IF present = {} THEN 0 ELSE MinOf(present)
        IN  /\ h_out[2] = expected
            /\ reduce_or(Reversed(h_args)) = expected
            /\ reduce_or(Append(h_args, h_args[1])) = expected

HasBothPrimaries(k) ==
    /\ clonotypes[k].vals[<<"VJ", "1", "seq">>] # "nan"
    /\ clonotypes[k].vals[<<"VDJ", "1", "seq">>] # "nan"

\* C5: under arm policy "all", for two clonotypes that both carry a primary
\* VJ and a primary VDJ chain, the entry is 0 if either arm's distance is 0
\* and the maximum of the two arms' distances otherwise.
C5_AllArmsIsMaxOrZero ==
    (pc = "done" /\ cfg.receptor_arms = "all") =>
        \A k \in Rows : \A i \in Rows :
            (HasBothPrimaries(k) /\ HasBothPrimaries(i)) =>
                Entry(k, i) =
                    IF ArmRes(k, "VJ", i) = 0 \/ ArmRes(k, "VDJ", i) = 0
                    THEN 0
                    ELSE MaxOf({ArmRes(k, "VJ", i), ArmRes(k, "VDJ", i)})

\* a pair matching on VJ but not on VDJ, and a pair matching on both arms,
\* have been computed under arm policy "all"
C5_Witness ==
    /\ pc = "done"
    /\ cfg.receptor_arms = "all"
    /\ \E k \in Rows : \E i \in Rows :
          /\ HasBothPrimaries(k) /\ HasBothPrimaries(i)
          /\ ArmRes(k, "VJ", i) > 0 /\ ArmRes(k, "VDJ", i) = 0
    /\ \E k \in Rows : \E i \in Rows :
          /\ HasBothPrimaries(k) /\ HasBothPrimaries(i)
          /\ ArmRes(k, "VJ", i) > 0 /\ ArmRes(k, "VDJ", i) > 0

\* C6: the cell-identifier sets have one entry per clonotype row and
\* partition the cells with has_ir: a cell is in the set of exactly the row
\* holding its (normalized) values, and no set is empty.
C6_CellIndicesPartition ==
    Built =>
        /\ Len(cell_indices) = Len(clonotypes)
        /\ \A r \in Rows : cell_indices[r] # {}
        /\ \A c \in 1..Len(obs) : obs[c].has_ir =>
              \A r \in Rows :
                  (obs[c].name \in cell_indices[r])
                     <=> (clonotypes[r] = FoldWithinGroup(cfg, CtTuple(cfg, obs[c])))

\* a cell with has_ir carries, in a considered arm, a secondary chain but no
\* primary one, under dual-chain policy "all" or "any"
OrphanInput ==
    /\ cfg.dual_ir \in {"all", "any"}
    /\ \E c \in 1..Len(obs) : \E arm \in Range(receptor_arm_cols(cfg)) :
          /\ obs[c].has_ir
          /\ IsMissingRaw(obs[c][arm][1])
          /\ ~IsMissingRaw(obs[c][arm][2])

\* C7: with such a cell, building fails before a neighbor finder, a lookup
\* table or a distance row exists; and every table that was built has, in
\* each row and arm, a primary chain wherever it has a secondary one.
C7_OrphanSecondaryRaises ==
    /\ OrphanInput =>
          /\ pc \in {"init", "error"}
          /\ ~nf_created
          /\ DOMAIN distance_matrices = {}
          /\ DOMAIN lookup_tables = {}
          /\ DOMAIN dist_rows = {}
          /\ DOMAIN dist = {}
          /\ clonotypes = <<>>
    /\ (Built /\ cfg.dual_ir \in {"all", "any"}) =>
          \A r \in Rows : \A arm \in Range(receptor_arm_cols(cfg)) :
              clonotypes[r].vals[<<arm, "2", "seq">>] # "nan"
                  => clonotypes[r].vals[<<arm, "1", "seq">>] # "nan"

\* the consistency check has raised on such an input
C7_Witness == OrphanInput /\ pc = "error" /\ err = "AssertionError"

IsSymmetric(mat) ==
    \A x \in 1..Len(mat) : \A y \in 1..Len(mat) : mat[x][y] = mat[y][x]

\* number of sequences present in the compared chains of a clonotype
PresentChains(k) ==
    Cardinality({col \in Range(cdr3_cols(cfg)) : clonotypes[k].vals[col] # "nan"})

\* C9: when the sequence distance matrices are symmetric, so is the returned
\* matrix, for every arm and dual-chain policy.
C9_Symmetric ==
    (pc = "done"
       /\ \A arm \in Range(receptor_arm_cols(cfg)) :
             IsSymmetric(distance_dict[arm].distances)) =>
        \A k \in Rows : \A i \in Rows : Entry(k, i) = Entry(i, k)

\* two neighboring clonotypes with different numbers of present chains
C9_Witness ==
    /\ pc = "done"
    /\ \E k \in Rows : \E i \in Rows :
          /\ PresentChains(k) # PresentChains(i)
          /\ Entry(k, i) > 0

\* a missing chain has no nonzero lookup entry
MissingHasNoLookup ==
    \A t \in DOMAIN lookup_tables : \A r \in Rows :
        (t[3] = "seq" /\ clonotypes[r].vals[t] = "nan") => lookup_tables[t].idx[r] = 0

NoOrphanRows ==
    \A r \in Rows : \A arm \in Range(receptor_arm_cols(cfg)) :
        ("2" \in Range(dual_ir_cols(cfg))
           /\ clonotypes[r].vals[<<arm, "2", "seq">>] # "nan")
        => clonotypes[r].vals[<<arm, "1", "seq">>] # "nan"

\* C10: every value stored in a row returned by the aggregator is a finite
\* non-negative number: neither the nan nor the inf sentinel reaches it.
C10_RowsFinite ==
    (pc \in {"prepared", "done"} /\ NoOrphanRows /\ MissingHasNoLookup) =>
        \A k \in DOMAIN dist_rows : \A i \in DOMAIN dist_rows[k] :
            /\ dist_rows[k][i] # NaN
            /\ dist_rows[k][i] # Inf
            /\ dist_rows[k][i] >= 0

\* a row was returned for which one arm's intermediate result was nan
C10_Witness ==
    /\ pc \in {"prepared", "done"}
    /\ \E k \in DOMAIN dist_rows : \E i \in DOMAIN dist_rows[k] :
          \E arm \in Range(receptor_arm_cols(cfg)) : ArmRes(k, arm, i) = NaN

====
